---- MODULE Spec2Model ----
(***************************************************************************)
(* Model of qt_binder/loopback_guard.py: LoopbackGuard, a reference        *)
(* counted reentrancy guard keyed by hashable lock items, and              *)
(* LoopbackContext, the context manager it hands out.                      *)
(***************************************************************************)
EXTENDS Integers, Sequences, FiniteSets, TLC

(* ------------------------------------------------------------------ *)
(* Bounds of the model.                                               *)
(* ------------------------------------------------------------------ *)
NumKeys == 2

MaxLen == 2

MaxCount == 2

MaxDepth == 2

MaxN == 10

MaxHeld == 2

MaxCalls == 4

MaxScopes == 2
MaxNameLen == 2
MaxRecorded == 3

(* Hashable lock items are 1..NumKeys.  Unhashable stands for an object  *)
(* that cannot be a dict key (a list, say): hashing it raises TypeError. *)
Keys == 1..NumKeys

Unhashable == 0

Items == Keys \cup {Unhashable}

Hashable(item) == item \in Keys

ItemSeqs == UNION {[1..n -> Items] : n \in 0..MaxLen}

ScopeSeqs == {s \in ItemSeqs : \A i \in 1..(Len(s) - 1) : Hashable(s[i])}

KeySeqs == UNION {[1..n -> Keys] : n \in 0..MaxLen}

(* ------------------------------------------------------------------ *)
(* State.                                                             *)
(* ------------------------------------------------------------------ *)
VARIABLES
    locked_items,   \* LoopbackGuard.locked_items: None or a defaultdict(int)
    call,           \* the last call made on the guard and how it ended
    stack,          \* the with-blocks now active, outermost first
    exc,            \* the exception now propagating, if any
    run,            \* the acquire/release run of the symmetry scenario
    handlers,       \* the attribute-change handlers now running, outermost first
    contexts,       \* the LoopbackContext instances made, with their open entries
    loader          \* the load_ui call made, the names it recorded and how it ended

vars == <<locked_items, call, stack, exc, run, handlers, contexts, loader>>

(* A defaultdict(int) is a function from the keys it stores to integers. *)
EmptyDict == [k \in {} |-> 0]

Dict(d) == [alloc |-> TRUE, d |-> d]

None == [alloc |-> FALSE, d |-> EmptyDict]

IsNone(li) == ~li.alloc

(* defaultdict(int).__getitem__: a missing key reads as int() = 0. *)
DefaultGet(d, item) == IF item \in DOMAIN d THEN d[item] ELSE 0

SetItem(d, item, v) == [k \in DOMAIN d \cup {item} |-> IF k = item THEN v ELSE d[k]]

DelItem(d, item) == [k \in DOMAIN d \ {item} |-> d[k]]

(* A guard that keeps a flag per item where the code keeps a count. *)
AcquireItemFlag(d, item) == SetItem(d, item, 1)

(* locked_items[item] += 1 *)
AcquireItem(d, item) == SetItem(d, item, DefaultGet(d, item) + 1)

(* A release that removes the item only below zero (< for <=). *)
ReleaseItemBelowZero(d, item) ==
    LET d1 == SetItem(d, item, DefaultGet(d, item) - 1)
    IN  IF d1[item] < 0 THEN DelItem(d1, item) ELSE d1

(* A release that removes the item only at zero (== for <=). *)
ReleaseItemAtZero(d, item) ==
    LET d1 == SetItem(d, item, DefaultGet(d, item) - 1)
    IN  IF d1[item] = 0 THEN DelItem(d1, item) ELSE d1

(* locked_items[item] -= 1; if locked_items[item] <= 0: del locked_items[item] *)
ReleaseItem(d, item) ==
    LET d1 == SetItem(d, item, DefaultGet(d, item) - 1)
    IN  IF d1[item] <= 0 THEN DelItem(d1, item) ELSE d1

(* The loop of acquire: items are taken in order; hashing an unhashable *)
(* item raises TypeError and leaves the loop with the dict as it is.    *)
RECURSIVE AcquireLoop(_, _)
AcquireLoop(d, items) ==
    IF items = <<>> THEN [d |-> d, raised |-> FALSE]
    ELSE IF ~Hashable(Head(items)) THEN [d |-> d, raised |-> TRUE]
    ELSE AcquireLoop(AcquireItem(d, Head(items)), Tail(items))

RECURSIVE ReleaseLoop(_, _)
ReleaseLoop(d, items) ==
    IF items = <<>> THEN [d |-> d, raised |-> FALSE]
    ELSE IF ~Hashable(Head(items)) THEN [d |-> d, raised |-> TRUE]
    ELSE ReleaseLoop(ReleaseItem(d, Head(items)), Tail(items))

(* An acquire that allocates the mapping without storing it in the guard. *)
acquireUnstored(li, items) ==
    IF IsNone(li) THEN [li |-> li, raised |-> AcquireLoop(EmptyDict, items).raised]
    ELSE LET r == AcquireLoop(li.d, items)
         IN  [li |-> Dict(r.d), raised |-> r.raised]

(* LoopbackGuard.acquire(items): the guard and the raised flag after the call. *)
acquire(li, items) ==
    LET d0 == IF IsNone(li) THEN EmptyDict ELSE li.d
        r  == AcquireLoop(d0, items)
    IN  [li |-> Dict(r.d), raised |-> r.raised]

(* A release that keeps the emptied mapping allocated. *)
releaseKeepEmpty(li, items) ==
    IF IsNone(li) THEN [li |-> li, raised |-> FALSE]
    ELSE LET r == ReleaseLoop(li.d, items)
         IN  [li |-> Dict(r.d), raised |-> r.raised]

(* A release that drops the whole mapping once its loop is done. *)
releaseAlwaysReset(li, items) ==
    IF IsNone(li) THEN [li |-> li, raised |-> FALSE]
    ELSE LET r == ReleaseLoop(li.d, items)
         IN  IF r.raised THEN [li |-> Dict(r.d), raised |-> TRUE]
             ELSE [li |-> None, raised |-> FALSE]

(* LoopbackGuard.release(items). *)
release(li, items) ==
    IF IsNone(li) THEN [li |-> li, raised |-> FALSE]
    ELSE LET r == ReleaseLoop(li.d, items)
         IN  IF r.raised THEN [li |-> Dict(r.d), raised |-> TRUE]
             ELSE IF DOMAIN r.d = {} THEN [li |-> None, raised |-> FALSE]
             ELSE [li |-> Dict(r.d), raised |-> FALSE]

(* A query that only asks whether the guard holds anything at all. *)
containsAnything(li, item) == [result |-> ~IsNone(li), raised |-> FALSE, li |-> li]

(* A query that reads locked_items[item], which a defaultdict answers *)
(* by storing the missing item with int() = 0.                        *)
containsByIndex(li, item) ==
    IF ~IsNone(li)
    THEN IF Hashable(item)
         THEN [result |-> DefaultGet(li.d, item) > 0, raised |-> FALSE,
               li |-> Dict(SetItem(li.d, item, DefaultGet(li.d, item)))]
         ELSE [result |-> FALSE, raised |-> TRUE, li |-> li]
    ELSE [result |-> FALSE, raised |-> FALSE, li |-> li]

(* LoopbackGuard.__contains__(item): `item in dict` hashes the item   *)
(* and stores nothing; li is the guard after the query.               *)
contains(li, item) ==
    IF ~IsNone(li)
    THEN IF Hashable(item)
         THEN [result |-> item \in DOMAIN li.d, raised |-> FALSE, li |-> li]
         ELSE [result |-> FALSE, raised |-> TRUE, li |-> li]
    ELSE [result |-> FALSE, raised |-> FALSE, li |-> li]

(* LoopbackGuard.__repr__: the items shown, None or dict(locked_items). *)
repr(li) == IF IsNone(li) THEN <<"None">> ELSE <<"dict", li.d>>

(* The count a key stands at: its stored value, 0 when it is not stored. *)
Count(li, k) == IF k \in DOMAIN li.d THEN li.d[k] ELSE 0

WithinCount(li) == \A k \in DOMAIN li.d : li.d[k] <= MaxCount

(* The record of a call: the operation, its argument, the guard before  *)
(* the call, whether the call raised, and what a query returned.        *)
Called(op, items, before, raised, result) ==
    [op |-> op, items |-> items, before |-> before, raised |-> raised, result |-> result]

NoCall == Called("init", <<>>, None, FALSE, FALSE)

(* LoopbackContext.__init__: the items are kept as a tuple. *)
LoopbackContext(items) == [_items |-> items]

(* LoopbackGuard.__call__ *)
MakeScope(items) == LoopbackContext(items)

(* A factory that acquires the items when the scope is made. *)
scopeEager(li, items) ==
    [ctx |-> LoopbackContext(items), li |-> acquire(li, items).li,
     raised |-> acquire(li, items).raised]

(* guard(items): LoopbackGuard.__call__ makes the context, which      *)
(* keeps tuple(items); li is the guard after the call.                *)
scope(li, items) == [ctx |-> MakeScope(items), li |-> li, raised |-> FALSE]

(* An enter that skips the acquire when an item is guarded already. *)
enterIfFree(li, ctx) ==
    IF \E i \in 1..Len(ctx._items) : contains(li, ctx._items[i]).result
    THEN [li |-> li, raised |-> FALSE]
    ELSE acquire(li, ctx._items)

(* LoopbackContext.__enter__ *)
enter(li, ctx) == acquire(li, ctx._items)

(* An exit that releases only when the block completed normally. *)
exitOnSuccess(li, ctx, exc_type) ==
    IF exc_type = "none"
    THEN [li |-> release(li, ctx._items).li, raised |-> release(li, ctx._items).raised,
          suppress |-> FALSE]
    ELSE [li |-> li, raised |-> FALSE, suppress |-> FALSE]

(* An exit that returns True, which tells the with statement to drop *)
(* the exception of the block.                                       *)
exitSwallow(li, ctx, exc_type) ==
    [li |-> release(li, ctx._items).li, raised |-> release(li, ctx._items).raised,
     suppress |-> TRUE]

(* LoopbackContext.__exit__(exc_type, exc_value, traceback): releases *)
(* and returns None, so an exception of the block is not suppressed.  *)
exit(li, ctx, exc_type) ==
    [li |-> release(li, ctx._items).li, raised |-> release(li, ctx._items).raised,
     suppress |-> FALSE]

(* No exception, and an exception that has `level` with-blocks of the *)
(* stack still to leave before a handler around them can catch it.    *)
NoExc == [kind |-> "none", level |-> 0]

Raised(kind, level) == [kind |-> kind, level |-> level]

NoRun == [k |-> 0, n |-> 0, m |-> 0]

(* ------------------------------------------------------------------ *)
(* qt/ui_loader.py: object names are strings over two characters.      *)
(* ------------------------------------------------------------------ *)
NameChars == {"_", "a"}

Names == UNION {[1..n -> NameChars] : n \in 0..MaxNameLen}

NameSeqs == UNION {[1..n -> Names] : n \in 0..MaxRecorded}

(* name.startswith('_') *)
startswith_(name) == Len(name) >= 1 /\ name[1] = "_"

(* if name: names[name] += 1, on a Counter *)
Record(hist, name) ==
    IF name = <<>> THEN hist
    ELSE IF name \in DOMAIN hist THEN [hist EXCEPT ![name] = @ + 1]
    ELSE [n \in DOMAIN hist \cup {name} |-> IF n = name THEN 1 ELSE hist[n]]

(* The Counter after the names were recorded in turn. *)
RECURSIVE RecordAll(_, _)
RecordAll(hist, names) ==
    IF names = <<>> THEN hist
    ELSE RecordAll(Record(hist, Head(names)), Tail(names))

(* The names with count == 1 and not name.startswith('_') *)
to_be_bound(hist) ==
    {name \in DOMAIN hist : hist[name] = 1 /\ ~startswith_(name)}

(* load_ui of the PyQt backend on a ui whose children have these names *)
load_ui_pyqt(names) ==
    [api |-> "pyqt", recorded |-> names, raised |-> "none",
     names |-> to_be_bound(RecordAll(<<>>, names))]

(* load_ui of the PySide backend: the loader records the names, and    *)
(* to_be_bound is looked up on the widget that load returned, which    *)
(* has no such attribute.                                             *)
load_ui_pyside(names) ==
    [api |-> "pyside", recorded |-> names, raised |-> "AttributeError",
     names |-> {}]

NoLoad == [api |-> "none", recorded |-> <<>>, raised |-> "none", names |-> {}]

(* A constructor that allocates the mapping at once. *)
InitAllocated ==
    /\ locked_items = Dict(EmptyDict)
    /\ call = NoCall
    /\ stack = <<>>
    /\ exc = NoExc
    /\ run = NoRun
    /\ handlers = <<>>
    /\ contexts = <<>>
    /\ loader = NoLoad

(* LoopbackGuard.__init__ *)
Init ==
    /\ locked_items = None
    /\ call = NoCall
    /\ stack = <<>>
    /\ exc = NoExc
    /\ run = NoRun
    /\ handlers = <<>>
    /\ contexts = <<>>
    /\ loader = NoLoad

Acquire(items) ==
    LET r == acquire(locked_items, items)
    IN  /\ WithinCount(r.li)
        /\ locked_items' = r.li
        /\ call' = Called("acquire", items, locked_items, r.raised, FALSE)
        /\ UNCHANGED <<stack, exc, run, handlers, contexts, loader>>

Release(items) ==
    LET r == release(locked_items, items)
    IN  /\ locked_items' = r.li
        /\ call' = Called("release", items, locked_items, r.raised, FALSE)
        /\ UNCHANGED <<stack, exc, run, handlers, contexts, loader>>

Contains(item) ==
    LET r == contains(locked_items, item)
    IN  /\ locked_items' = r.li
        /\ call' = Called("contains", <<item>>, locked_items, r.raised, r.result)
        /\ UNCHANGED <<stack, exc, run, handlers, contexts, loader>>

Next ==
    \/ \E items \in ItemSeqs : Acquire(items)
    \/ \E items \in ItemSeqs : Release(items)
    \/ \E item \in Items : Contains(item)

Spec == Init /\ [][Next]_vars

(* ------------------------------------------------------------------ *)
(* with-blocks on scopes of the guard, nested in one another.      *)
(* ------------------------------------------------------------------ *)
(* A with statement on guard(items) is reached: the scope is made and entered.  *)
(* When __enter__ raises, the block is not run and __exit__ is not   *)
(* called; the TypeError propagates from the with statement.         *)
WithEnter(items) ==
    LET ctx == MakeScope(items)
        r   == enter(locked_items, ctx)
    IN  /\ exc = NoExc
        /\ Len(stack) < MaxDepth
        /\ WithinCount(r.li)
        /\ locked_items' = r.li
        /\ call' = Called("acquire", ctx._items, locked_items, r.raised, FALSE)
        /\ IF r.raised
           THEN /\ exc' = Raised("TypeError", Len(stack) + 1)
                /\ stack' = stack
           ELSE /\ exc' = exc
                /\ stack' = Append(stack, [ctx |-> ctx, entry |-> locked_items, inside |-> r.li])
        /\ UNCHANGED <<run, handlers, contexts, loader>>

(* The code of the innermost block raises a failure. *)
BlockRaise ==
    /\ exc = NoExc
    /\ stack # <<>>
    /\ exc' = Raised("Failure", Len(stack))
    /\ UNCHANGED <<locked_items, call, stack, run, handlers, contexts, loader>>

(* The innermost block is left, by reaching its end or by the        *)
(* exception that propagates: __exit__ runs.                         *)
WithExit ==
    /\ stack # <<>>
    /\ LET top == stack[Len(stack)]
           r   == exit(locked_items, top.ctx, exc.kind)
       IN  /\ locked_items' = r.li
           /\ call' = Called("release", top.ctx._items, locked_items, r.raised, FALSE)
           /\ stack' = SubSeq(stack, 1, Len(stack) - 1)
           /\ exc' = IF r.raised THEN Raised("TypeError", Len(stack) - 1)
                     ELSE IF r.suppress THEN NoExc ELSE exc
    /\ UNCHANGED <<run, handlers, contexts, loader>>

(* The exception is caught: a failure of a block by code around that *)
(* block, the TypeError of a failed __enter__ by the outermost caller.*)
Catch ==
    /\ exc # NoExc
    /\ \/ stack = <<>>
       \/ exc.kind = "Failure" /\ Len(stack) < exc.level
    /\ exc' = NoExc
    /\ UNCHANGED <<locked_items, call, stack, run, handlers, contexts, loader>>

(* The number of items the active with-blocks hold. *)
RECURSIVE Held(_)
Held(frames) ==
    IF frames = <<>> THEN 0 ELSE Len(Head(frames).ctx._items) + Held(Tail(frames))

NextScope ==
    \/ \E items \in ScopeSeqs : Held(stack) + Len(items) <= MaxHeld /\ WithEnter(items)
    \/ BlockRaise
    \/ WithExit
    \/ Catch

SpecScope == Init /\ [][NextScope]_vars

NextNest ==
    \/ \E items \in KeySeqs : WithEnter(items)
    \/ BlockRaise
    \/ WithExit
    \/ Catch

SpecNest == Init /\ [][NextNest]_vars

(* ------------------------------------------------------------------ *)
(* Scopes made by calling the guard, entered and exited by calls of   *)
(* __enter__ and __exit__ in any order.                               *)
(* ------------------------------------------------------------------ *)
RECURSIVE Given(_)
Given(cs) == IF cs = <<>> THEN 0 ELSE Len(Head(cs).given) + Given(Tail(cs))

RECURSIVE Active(_)
Active(cs) == IF cs = <<>> THEN 0 ELSE Head(cs).active + Active(Tail(cs))

(* guard(items) is called: a scope is made and kept by the caller,  *)
(* with the items it was given, its open entries and the number of  *)
(* open entries at its latest entry.                                *)
CallGuard(items) ==
    LET r == scope(locked_items, items)
    IN  /\ Len(contexts) < MaxScopes
        /\ Given(contexts) + Len(items) <= MaxHeld
        /\ WithinCount(r.li)
        /\ locked_items' = r.li
        /\ call' = Called("call", items, locked_items, r.raised, FALSE)
        /\ contexts' = Append(contexts,
                              [ctx |-> r.ctx, given |-> items, active |-> 0, depth |-> 0])
        /\ UNCHANGED loader
        /\ UNCHANGED <<stack, exc, run, handlers>>

(* __enter__ of the i-th scope is called. *)
EnterCtx(i) ==
    LET r == enter(locked_items, contexts[i].ctx)
    IN  /\ Active(contexts) < MaxDepth
        /\ WithinCount(r.li)
        /\ locked_items' = r.li
        /\ call' = Called("acquire", contexts[i].ctx._items, locked_items, r.raised, FALSE)
        /\ contexts' = IF r.raised THEN contexts
                       ELSE [contexts EXCEPT ![i].active = @ + 1,
                                             ![i].depth = Active(contexts) + 1]
        /\ UNCHANGED loader
        /\ UNCHANGED <<stack, exc, run, handlers>>

(* __exit__ of the i-th scope, which has an entry still open, is called. *)
ExitCtx(i) ==
    LET r == exit(locked_items, contexts[i].ctx, "none")
    IN  /\ contexts[i].active > 0
        /\ locked_items' = r.li
        /\ call' = Called("release", contexts[i].ctx._items, locked_items, r.raised, FALSE)
        /\ contexts' = [contexts EXCEPT ![i].active = @ - 1,
                                        ![i].depth = IF contexts[i].active = 1 THEN 0 ELSE @]
        /\ UNCHANGED loader
        /\ UNCHANGED <<stack, exc, run, handlers>>

NextCtx ==
    \/ \E items \in ScopeSeqs : CallGuard(items)
    \/ \E i \in 1..Len(contexts) : EnterCtx(i)
    \/ \E i \in 1..Len(contexts) : ExitCtx(i)

SpecCtx == Init /\ [][NextCtx]_vars

NextCtxKeys ==
    \/ \E items \in KeySeqs : CallGuard(items)
    \/ \E i \in 1..Len(contexts) : EnterCtx(i)
    \/ \E i \in 1..Len(contexts) : ExitCtx(i)

SpecCtxKeys == Init /\ [][NextCtxKeys]_vars

(* ------------------------------------------------------------------ *)
(* Properties of the guard under arbitrary calls.                     *)
(* ------------------------------------------------------------------ *)
(* ------------------------------------------------------------------ *)
(* One load_ui call per backend, on every short sequence of names.     *)
(* ------------------------------------------------------------------ *)
LoadUiPyQt(names) ==
    /\ loader = NoLoad
    /\ loader' = load_ui_pyqt(names)
    /\ UNCHANGED <<locked_items, call, stack, exc, run, handlers, contexts>>

LoadUiPySide(names) ==
    /\ loader = NoLoad
    /\ loader' = load_ui_pyside(names)
    /\ UNCHANGED <<locked_items, call, stack, exc, run, handlers, contexts>>

NextLoader ==
    \/ \E names \in NameSeqs : LoadUiPyQt(names)
    \/ \E names \in NameSeqs : LoadUiPySide(names)

SpecLoader == Init /\ [][NextLoader]_vars

Occurrences(k, items) == Cardinality({i \in 1..Len(items) : items[i] = k})

Occurs(k, items) == \E i \in 1..Len(items) : items[i] = k

Idle(li) == \A k \in Keys : Count(li, k) = 0

(* C5: whenever no key has a positive count the guard is as freshly    *)
(* constructed: locked_items is None and the diagnostic view is that   *)
(* of a fresh guard.                                                   *)
IdleCollapse ==
    Idle(locked_items) => locked_items = None /\ repr(locked_items) = repr(None)

(* C6: every key stored in locked_items has a count of at least 1. *)
PositiveCounts == \A k \in DOMAIN locked_items.d : locked_items.d[k] >= 1

(* A mismatched release has removed one key and left another stored. *)
PositiveCountsWitness ==
    /\ call.op = "release"
    /\ \E k \in Keys : Occurs(k, call.items) /\ Count(call.before, k) = 0
    /\ \E k \in Keys : Count(locked_items, k) >= 1

(* C7: release of keys that have no outstanding acquisition does not   *)
(* raise, leaves every other key's count as it was, leaves the keys    *)
(* not contained and stores no debt: one acquire of such a key then    *)
(* puts it at count 1.                                                 *)
OverReleaseNoOp ==
    (/\ call.op = "release"
     /\ call.items \in KeySeqs
     /\ \A k \in Keys : Occurs(k, call.items) => Count(call.before, k) = 0)
    => /\ ~call.raised
       /\ \A k \in Keys : Count(locked_items, k) = Count(call.before, k)
       /\ \A k \in Keys : Occurs(k, call.items) =>
              /\ ~contains(locked_items, k).result
              /\ k \notin DOMAIN locked_items.d
              /\ Count(acquire(locked_items, <<k>>).li, k) = 1
              /\ contains(acquire(locked_items, <<k>>).li, k).result

(* A key was released without being held while another key is held. *)
OverReleaseWitness ==
    /\ call.op = "release"
    /\ call.items # <<>>
    /\ call.items \in KeySeqs
    /\ \A k \in Keys : Occurs(k, call.items) => Count(call.before, k) = 0
    /\ \E k \in Keys : Count(locked_items, k) >= 1

(* C8: an acquire that raises leaves every key's count as it was       *)
(* before the call.                                                    *)
NoPartialMutation ==
    (call.op = "acquire" /\ call.raised)
    => \A k \in Keys : Count(locked_items, k) = Count(call.before, k)

(* C9: contains(item) is true exactly when locked_items is allocated   *)
(* and the item has a count of at least 1 in it, and is false when     *)
(* locked_items is None.                                               *)
ContainsMeaning ==
    /\ \A item \in Keys :
          contains(locked_items, item).result
          <=> (~IsNone(locked_items) /\ Count(locked_items, item) >= 1)
    /\ IsNone(locked_items) =>
          \A item \in Items :
             ~contains(locked_items, item).result /\ ~contains(locked_items, item).raised
    /\ (call.op = "contains" /\ ~call.raised) =>
          (call.result <=> (~IsNone(locked_items) /\ Count(locked_items, call.items[1]) >= 1))

(* A query answered true for a key held twice, with another key absent. *)
ContainsMeaningWitness ==
    /\ call.op = "contains"
    /\ call.result
    /\ Count(locked_items, call.items[1]) = 2
    /\ \E k \in Keys : ~contains(locked_items, k).result

(* C10: an acquire that returns raises the count of every key by the   *)
(* number of times the key occurs in the item sequence; a release of   *)
(* [k] at count 2 leaves k contained, at count 1 it does not.          *)
DuplicatesCountPerOccurrence ==
    /\ (call.op = "acquire" /\ ~call.raised) =>
          \A k \in Keys :
             Count(locked_items, k) = Count(call.before, k) + Occurrences(k, call.items)
    /\ \A k \in Keys :
          (call.op = "release" /\ call.items = <<k>>) =>
             /\ Count(call.before, k) = 2 => contains(locked_items, k).result
             /\ Count(call.before, k) = 1 => ~contains(locked_items, k).result

(* acquire([k, k]) on an idle guard has put k at count 2. *)
DuplicatesWitness ==
    /\ call.op = "acquire"
    /\ \E k \in Keys : call.items = <<k, k>> /\ Count(locked_items, k) = 2
    /\ call.before = None

(* ------------------------------------------------------------------ *)
(* Attribute-change handlers that follow the guard's usage pattern:   *)
(*     if key in guard: return                                        *)
(*     with guard(key): body                                          *)
(* where the body changes other attributes, whose handlers run        *)
(* synchronously inside it.                                           *)
(* ------------------------------------------------------------------ *)
(* The handler of key k is called while `running` are active: it     *)
(* returns at once when k is guarded, else it enters a scope for k   *)
(* and starts its body, which will change the attributes in todo.    *)
Invoke(k, todo, running) ==
    LET c   == contains(locked_items, k)
        ctx == MakeScope(<<k>>)
        r   == enter(c.li, ctx)
    IN  /\ Len(running) < MaxCalls
        /\ IF c.result
           THEN /\ locked_items' = c.li
                /\ call' = Called("contains", <<k>>, locked_items, c.raised, c.result)
                /\ handlers' = running
           ELSE /\ locked_items' = r.li
                /\ call' = Called("acquire", ctx._items, locked_items, r.raised, FALSE)
                /\ handlers' = Append(running, [key |-> k, ctx |-> ctx, todo |-> todo])
        /\ UNCHANGED <<stack, exc, run, contexts, loader>>

(* The toolkit reports a change of attribute k to its handler. *)
Fire(k, todo) ==
    /\ handlers = <<>>
    /\ exc = NoExc
    /\ Invoke(k, todo, handlers)

(* The body of the innermost handler changes attribute k. *)
Trigger(k, todo) ==
    /\ handlers # <<>>
    /\ exc = NoExc
    /\ k \in handlers[Len(handlers)].todo
    /\ Invoke(k, todo,
              [handlers EXCEPT ![Len(handlers)].todo = @ \ {k}])

(* The body of the innermost handler raises a failure. *)
HandlerRaise ==
    /\ handlers # <<>>
    /\ exc = NoExc
    /\ exc' = Raised("Failure", Len(handlers))
    /\ UNCHANGED <<locked_items, call, stack, run, handlers, contexts, loader>>

(* The innermost handler ends, its body done or left by the failure: *)
(* the scope is exited and the handler returns to its caller.        *)
Return ==
    /\ handlers # <<>>
    /\ LET top == handlers[Len(handlers)]
           r   == exit(locked_items, top.ctx, exc.kind)
       IN  /\ exc # NoExc \/ top.todo = {}
           /\ locked_items' = r.li
           /\ call' = Called("release", top.ctx._items, locked_items, r.raised, FALSE)
           /\ handlers' = SubSeq(handlers, 1, Len(handlers) - 1)
           /\ exc' = IF r.suppress THEN NoExc ELSE exc
    /\ UNCHANGED <<stack, run, contexts, loader>>

(* The failure of a handler is caught by the body that changed the   *)
(* attribute, or by the toolkit's event loop.                        *)
HandlerCatch ==
    /\ exc # NoExc
    /\ Len(handlers) < exc.level
    /\ exc' = NoExc
    /\ UNCHANGED <<locked_items, call, stack, run, handlers, contexts, loader>>

NextHandlers ==
    \/ \E k \in Keys, todo \in SUBSET Keys : Fire(k, todo)
    \/ \E k \in Keys, todo \in SUBSET Keys : Trigger(k, todo)
    \/ HandlerRaise
    \/ Return
    \/ HandlerCatch

SpecHandlers == Init /\ [][NextHandlers]_vars

(* A handler that has been called runs on: the calls are synchronous  *)
(* and in one thread, so its body takes its next step, returns, or    *)
(* its failure reaches a caller that handles it.                      *)
HandlerStep ==
    \/ \E k \in Keys, todo \in SUBSET Keys : Trigger(k, todo)
    \/ Return
    \/ HandlerCatch

SpecCascade == Init /\ [][NextHandlers]_vars /\ WF_vars(HandlerStep)

(* C4: under the handler pattern no body for a key starts while a     *)
(* body for that key is active, and no count exceeds 1.               *)
LoopbackPrevention ==
    /\ \A k \in Keys : Count(locked_items, k) <= 1
    /\ \A i, j \in 1..Len(handlers) : i # j => handlers[i].key # handlers[j].key

(* A handler changed an attribute whose handler changed the first     *)
(* attribute back: the handler of the first returned at once.         *)
LoopbackPreventionWitness ==
    /\ Len(handlers) = 2
    /\ call.op = "contains"
    /\ call.result
    /\ call.items = <<handlers[1].key>>
    /\ handlers[2].key # handlers[1].key

(* ------------------------------------------------------------------ *)
(* n calls of acquire([k]) followed by calls of release([k]).         *)
(* ------------------------------------------------------------------ *)
SymAcquire(k) ==
    LET r == acquire(locked_items, <<k>>)
    IN  /\ run.m = 0
        /\ run.n < MaxN
        /\ run.n = 0 \/ run.k = k
        /\ locked_items' = r.li
        /\ call' = Called("acquire", <<k>>, locked_items, r.raised, FALSE)
        /\ run' = [k |-> k, n |-> run.n + 1, m |-> 0]
        /\ UNCHANGED <<stack, exc, handlers, contexts, loader>>

SymRelease ==
    LET r == release(locked_items, <<run.k>>)
    IN  /\ run.n >= 1
        /\ run.m < run.n
        /\ locked_items' = r.li
        /\ call' = Called("release", <<run.k>>, locked_items, r.raised, FALSE)
        /\ run' = [run EXCEPT !.m = run.m + 1]
        /\ UNCHANGED <<stack, exc, handlers, contexts, loader>>

NextSym ==
    \/ \E k \in Keys : SymAcquire(k)
    \/ SymRelease

SpecSym == Init /\ [][NextSym]_vars

(* C1: after n >= 1 calls of acquire([k]) and then m calls of          *)
(* release([k]), k is contained while m < n; at m = n it is not and    *)
(* the guard is idle, locked_items being None.                         *)
AcquireReleaseSymmetry ==
    run.n >= 1 =>
       /\ ~call.raised
       /\ run.m < run.n => contains(locked_items, run.k).result
       /\ run.m = run.n => ~contains(locked_items, run.k).result /\ locked_items = None

(* Three acquires of a key have been matched by three releases. *)
SymmetryWitness ==
    /\ run.n = 3
    /\ run.m = 3
    /\ call.op = "release"
    /\ locked_items = None

(* ------------------------------------------------------------------ *)
(* Properties of with-blocks.                                         *)
(* ------------------------------------------------------------------ *)
Top == stack[Len(stack)]

SameCounts(li1, li2) == \A k \in Keys : Count(li1, k) = Count(li2, k)

(* C2: when a with-block is left, normally or by a failure, and the    *)
(* block has left every count as it found it on entry, every count is  *)
(* what it was before the scope was entered; on a guard idle before    *)
(* entry no key is contained afterwards.                               *)
ScopedCleanup ==
    [][(/\ stack # <<>>
        /\ stack' = SubSeq(stack, 1, Len(stack) - 1)
        /\ SameCounts(locked_items, Top.inside))
       => /\ SameCounts(locked_items', Top.entry)
          /\ Idle(Top.entry) => \A k \in Keys : ~contains(locked_items', k).result]_vars

(* A scope for two keys, entered on an idle guard, was left by a       *)
(* failure of its block and neither key is contained.                  *)
ScopedCleanupWitness ==
    /\ stack = <<>>
    /\ exc.kind = "Failure"
    /\ call.op = "release"
    /\ call.items = <<1, 2>>
    /\ Count(call.before, 1) = 1 /\ Count(call.before, 2) = 1
    /\ ~contains(locked_items, 1).result /\ ~contains(locked_items, 2).result

(* The occurrences of key k in the items of the active with-blocks. *)
RECURSIVE Holding(_, _)
Holding(k, frames) ==
    IF frames = <<>> THEN 0
    ELSE Occurrences(k, Head(frames).ctx._items) + Holding(k, Tail(frames))

(* C3: with scopes nested on a key x the count of x is the number of   *)
(* active scopes on it, x is contained exactly while one of them is    *)
(* active.                                                             *)
ReentrantNesting ==
    \A x \in Keys :
       /\ Count(locked_items, x) = Holding(x, stack)
       /\ (\A i \in 1..Len(stack) : stack[i].ctx._items = <<x>>)
             => Count(locked_items, x) = Len(stack)
       /\ contains(locked_items, x).result <=> Holding(x, stack) >= 1

(* Two scopes on one key are active, one inside the other. *)
ReentrantNestingWitness ==
    /\ Len(stack) = 2
    /\ stack[1].ctx._items = <<1>>
    /\ stack[2].ctx._items = <<1>>
    /\ Count(locked_items, 1) = 2

(* C11: acquire(items) and release(items) leave the count of every    *)
(* key that does not occur in items as it was; with a and b at count 1 *)
(* a release of [a] leaves a not contained and b contained.            *)
MultiKeyIndependence ==
    /\ call.op \in {"acquire", "release"} =>
          \A k \in Keys :
             ~Occurs(k, call.items) => Count(locked_items, k) = Count(call.before, k)
    /\ \A a, b \in Keys :
          (/\ a # b
           /\ call.op = "release"
           /\ call.items = <<a>>
           /\ Count(call.before, a) = 1
           /\ Count(call.before, b) = 1)
          => ~contains(locked_items, a).result /\ contains(locked_items, b).result

(* Keys 1 and 2 were held once each and only key 1 has been released. *)
MultiKeyWitness ==
    /\ call.op = "release"
    /\ call.items = <<1>>
    /\ Count(call.before, 1) = 1
    /\ Count(call.before, 2) = 1
    /\ ~contains(locked_items, 1).result
    /\ contains(locked_items, 2).result

(* C13: a freshly constructed guard contains no item, its locked_items *)
(* is None and its diagnostic view shows None, not a mapping; a query  *)
(* on the fresh guard answers false.                                   *)
IdleInitially ==
    /\ call = NoCall =>
          /\ locked_items = None
          /\ repr(locked_items) = <<"None">>
          /\ \A item \in Items :
                ~contains(locked_items, item).result /\ ~contains(locked_items, item).raised
    /\ (call.op = "contains" /\ call.before = None) => ~call.result /\ ~call.raised

(* The guard as constructed, no call made on it yet. *)
IdleInitiallyWitness ==
    /\ call = NoCall
    /\ IsNone(locked_items)
    /\ repr(locked_items) = <<"None">>

(* C15: a release that has processed all its items and leaves no key   *)
(* stored leaves locked_items None, whatever the item sequence.        *)
ReleaseCollapses ==
    (/\ call.op = "release"
     /\ ~call.raised
     /\ DOMAIN locked_items.d = {})
    => locked_items = None

(* release([]) was applied to an allocated mapping without keys. *)
ReleaseCollapsesWitness ==
    /\ call.op = "release"
    /\ call.items = <<>>
    /\ ~IsNone(call.before)
    /\ DOMAIN call.before.d = {}
    /\ locked_items = None

(* A release removed two keys at once, one of them with more           *)
(* occurrences than its count.                                         *)
ReleaseCollapsesSeveral ==
    /\ call.op = "release"
    /\ \E a, b \in Keys :
          /\ a # b
          /\ Count(call.before, a) >= 1 /\ Count(call.before, b) >= 1
          /\ Occurs(a, call.items) /\ Occurs(b, call.items)
    /\ locked_items = None

(* C18: a contains query, for an item present or absent, hashable or  *)
(* not, leaves locked_items as it was: it stores no key and allocates  *)
(* no mapping.                                                         *)
ContainsIsPure ==
    call.op = "contains" =>
       /\ locked_items = call.before
       /\ IsNone(call.before) => IsNone(locked_items)
       /\ DOMAIN locked_items.d = DOMAIN call.before.d

(* A key that is not stored was queried on a mapping holding another. *)
ContainsIsPureWitness ==
    /\ call.op = "contains"
    /\ ~call.result
    /\ ~call.raised
    /\ ~IsNone(call.before)
    /\ call.items[1] \notin DOMAIN call.before.d
    /\ DOMAIN locked_items.d # {}

(* C19: when a with-block is left by a failure, __exit__ releases the *)
(* items of that scope, no others, and the same failure goes on to     *)
(* the enclosing block or the caller; the scopes are left innermost    *)
(* first.                                                              *)
FailurePropagates ==
    [][(/\ stack # <<>>
        /\ exc # NoExc
        /\ stack' # stack)
       => /\ stack' = SubSeq(stack, 1, Len(stack) - 1)
          /\ exc' = exc
          /\ locked_items' = release(locked_items, Top.ctx._items).li
          /\ \A k \in Keys :
                Count(locked_items', k) =
                   IF Count(locked_items, k) >= Occurrences(k, Top.ctx._items)
                   THEN Count(locked_items, k) - Occurrences(k, Top.ctx._items)
                   ELSE 0]_vars

(* A failure raised in the inner of two nested blocks has left both    *)
(* scopes and stands at the outermost caller, the guard holding        *)
(* nothing.                                                            *)
FailurePropagatesWitness ==
    /\ stack = <<>>
    /\ exc = Raised("Failure", 2)
    /\ call.op = "release"
    /\ call.items # <<>>
    /\ Idle(locked_items)

(* C14: every cascade of handlers ends: once a handler runs, a state  *)
(* follows in which none runs and the guard is idle; no key has two    *)
(* bodies on one call chain, and the guard is idle whenever no         *)
(* handler runs.                                                       *)
CascadesTerminate ==
    /\ (handlers # <<>>) ~> (handlers = <<>> /\ locked_items = None)
    /\ [](\A i, j \in 1..Len(handlers) : handlers[i].key = handlers[j].key => i = j)
    /\ [](handlers = <<>> => locked_items = None)

(* The outermost handler of a cascade over every key has returned and  *)
(* left the guard idle.                                                *)
CascadesTerminateWitness ==
    /\ handlers = <<>>
    /\ exc = NoExc
    /\ call.op = "release"
    /\ DOMAIN call.before.d = {call.items[1]}
    /\ locked_items = None

(* ------------------------------------------------------------------ *)
(* Properties of scopes made, entered and exited by separate calls.   *)
(* ------------------------------------------------------------------ *)
(* C12: making a scope, for any item sequence, succeeds and leaves    *)
(* locked_items as it was; the scope keeps the items in the order and  *)
(* multiplicity given, and an entry or exit that returns moves every   *)
(* count by the key's occurrences in them.                             *)
ScopeCreationPure ==
    /\ call.op = "call" =>
          /\ ~call.raised
          /\ locked_items = call.before
          /\ contexts[Len(contexts)].ctx._items = call.items
    /\ \A i \in 1..Len(contexts) : contexts[i].ctx._items = contexts[i].given
    /\ (call.op = "acquire" /\ ~call.raised) =>
          /\ \E i \in 1..Len(contexts) : contexts[i].given = call.items
          /\ \A k \in Keys :
                Count(locked_items, k) = Count(call.before, k) + Occurrences(k, call.items)
    /\ (call.op = "release" /\ ~call.raised) =>
          /\ \E i \in 1..Len(contexts) : contexts[i].given = call.items
          /\ \A k \in Keys :
                Count(locked_items, k) = Count(call.before, k) - Occurrences(k, call.items)

(* A scope with an unhashable item was made while a key was guarded. *)
ScopeCreationWitness ==
    /\ call.op = "call"
    /\ Occurs(Unhashable, call.items)
    /\ \E k \in Keys : Count(locked_items, k) >= 1
    /\ locked_items = call.before

(* The empty scope was made, entered and exited. *)
ScopeCreationEmpty ==
    /\ call.op = "release"
    /\ call.items = <<>>
    /\ \E i \in 1..Len(contexts) : contexts[i].given = <<>>

(* C16: a scope keeps its item tuple for good; each entry raises and   *)
(* each exit lowers every count by the key's occurrences in that       *)
(* tuple, however often the scope was entered before; when every       *)
(* scope has been exited as often as entered, no key has a count.      *)
ScopePairing ==
    /\ [][\A i \in 1..Len(contexts) :
            /\ i <= Len(contexts')
            /\ contexts'[i].ctx = contexts[i].ctx
            /\ contexts'[i].active = contexts[i].active + 1 =>
                  \A k \in Keys :
                     Count(locked_items', k) =
                        Count(locked_items, k) + Occurrences(k, contexts[i].ctx._items)
            /\ contexts'[i].active = contexts[i].active - 1 =>
                  \A k \in Keys :
                     Count(locked_items', k) =
                        Count(locked_items, k) - Occurrences(k, contexts[i].ctx._items)]_vars
    /\ [](Active(contexts) = 0 => Idle(locked_items))

(* One scope instance has two entries open. *)
ScopePairingWitness ==
    \E i \in 1..Len(contexts) :
       /\ contexts[i].active = 2
       /\ contexts[i].given # <<>>
       /\ Count(locked_items, contexts[i].given[1]) = 2

(* The occurrences of key k in the items of the open entries. *)
RECURSIVE Holdings(_, _)
Holdings(k, cs) ==
    IF cs = <<>> THEN 0
    ELSE Head(cs).active * Occurrences(k, Head(cs).ctx._items) + Holdings(k, Tail(cs))

(* C17: in any order of entries and exits the count of a key is the    *)
(* number of its occurrences in the items of the active scopes, the    *)
(* key is contained exactly while that is positive, and the guard is   *)
(* idle once all scopes are exited.                                    *)
CountEqualsHoldings ==
    /\ \A k \in Keys :
          /\ Count(locked_items, k) = Holdings(k, contexts)
          /\ contains(locked_items, k).result <=> Holdings(k, contexts) >= 1
    /\ Active(contexts) = 0 => locked_items = None

(* Of two scopes the one entered first was exited first: the other,    *)
(* entered inside it, is still active and holds its key.               *)
CountEqualsHoldingsWitness ==
    /\ call.op = "release"
    /\ Active(contexts) = 1
    /\ \E i \in 1..Len(contexts) :
          /\ contexts[i].active = 1
          /\ contexts[i].depth = 2
          /\ contexts[i].given # <<>>
          /\ contains(locked_items, contexts[i].given[1]).result

(* ------------------------------------------------------------------ *)
(* Properties of load_ui.                                             *)
(* ------------------------------------------------------------------ *)
(* The names a load_ui call is to return for the names it recorded. *)
Selected(names) ==
    {name \in Names : /\ name # <<>>
                      /\ Occurrences(name, names) = 1
                      /\ ~startswith_(name)}

(* C20: on either backend load_ui returns, and the names it returns    *)
(* are the non-empty names recorded exactly once that do not start     *)
(* with an underscore.                                                 *)
LoaderSelection ==
    loader.api # "none" =>
       /\ loader.raised = "none"
       /\ loader.names = Selected(loader.recorded)

(* The selection rule on the backend that returns. *)
LoaderSelectionPyQt ==
    loader.api = "pyqt" =>
       /\ loader.raised = "none"
       /\ loader.names = Selected(loader.recorded)

(* A PyQt load with a name met twice, an underscore name and a name    *)
(* that is returned.                                                   *)
LoaderSelectionPyQtWitness ==
    /\ loader.api = "pyqt"
    /\ \E name \in Names : Occurrences(name, loader.recorded) = 2
    /\ \E name \in Names : startswith_(name) /\ Occurs(name, loader.recorded)
    /\ loader.names # {}

====
